---------------------------- MODULE Spec2Model ----------------------------
(***************************************************************************)
(* The persistent store of the budgeting application, as declared by the   *)
(* SQLAlchemy models in backend/app/models: five tables (users, accounts,  *)
(* transaction_categories, transactions, budgets), their foreign keys with *)
(* the ON DELETE rules, the ORM cascades, the column defaults and the      *)
(* unique constraint on users.email.                                       *)
(*                                                                         *)
(* Each table is a function from the identifiers of its rows to records    *)
(* holding the columns that take part in a constraint.  The operations are *)
(* the ones the mapping gives a session: adding a row (INSERT, refused     *)
(* when a constraint fails), assigning parent_category_id (UPDATE) and     *)
(* deleting a row (DELETE with the cascades).  A refused write raises and  *)
(* rolls back, which leaves the store as it was: it is a stuttering step.  *)
(***************************************************************************)
EXTENDS Integers, FiniteSets, Sequences

\* ---------------------------------------------------------------- bounds
MaxUsers == 2
MaxAccounts == 2
MaxCategories == 2
MaxTransactions == 2
MaxBudgets == 1
MaxAmount == 1
MaxBalance == 1
MaxRows == 5

\* ------------------------------------------------------------ vocabulary
\* The value of a nullable foreign key that is not set (identifiers start at 1).
NULL == 0

\* TransactionType.
INCOME == "income"
EXPENSE == "expense"
TRANSFER == "transfer"
TransactionType == {INCOME, EXPENSE, TRANSFER}

\* Emails are sequences of character codes: "a" and "A".
Emails == {<<97>>, <<65>>}

VARIABLES users, accounts, categories, transactions, budgets, appended, last

vars == <<users, accounts, categories, transactions, budgets, appended, last>>

\* The history of the journal's last unit of work: no transfer was just appended.
NoTransfer == [debit |-> NULL, credit |-> NULL, src |-> NULL, dst |-> NULL,
               srcBalance |-> 0, dstBalance |-> 0]

\* The history of the last write: what a delete removed and what it cleared.
Flushed(op, DU, DA, DC, DB, DT, cleared, unlinked) ==
    [op |-> op, users |-> DU, accounts |-> DA, categories |-> DC, budgets |-> DB,
     transactions |-> DT, uncategorised |-> cleared, unlinked |-> unlinked,
     foreignCategories |-> {c \in DC : categories[c].user_id \notin DU},
     foreignBudgets |-> {b \in DB : budgets[b].user_id \notin DU}]

NoDelete == Flushed("write", {}, {}, {}, {}, {}, {}, {})

\* ------------------------------------------------------------- helpers
\* The primary key of a new row: an identifier no row of the table holds.
FreshId(table, max) ==
    CHOOSE i \in 1..max : i \notin DOMAIN table /\ \A j \in 1..(i - 1) : j \in DOMAIN table

\* The rows of the whole store.
Rows ==
    Cardinality(DOMAIN users) + Cardinality(DOMAIN accounts)
    + Cardinality(DOMAIN categories) + Cardinality(DOMAIN transactions)
    + Cardinality(DOMAIN budgets)

HasRoom(table, max) == Cardinality(DOMAIN table) < max /\ Rows < MaxRows

Insert(table, id, row) ==
    [i \in DOMAIN table \cup {id} |-> IF i = id THEN row ELSE table[i]]

Remove(table, ids) == [i \in DOMAIN table \ ids |-> table[i]]

\* ------------------------------------------------------------ constraints
\* (mutant) The unique index is missing.
EmailNeverTaken(email) == FALSE

\* users.email is unique: the index compares the stored strings as they are.
EmailTaken(email) == \E u \in DOMAIN users : users[u].email = email

\* A foreign key names an existing row; a nullable one may also be unset.
UserExists(u) == u \in DOMAIN users
AccountExists(a) == a \in DOMAIN accounts
CategoryExists(c) == c \in DOMAIN categories
TransactionExists(t) == t \in DOMAIN transactions

\* --------------------------------------------------------------- cascades
\* The subcategories of the categories in S, at any depth (S included):
\* parent_category_id is ON DELETE CASCADE and subcategories cascade "all, delete-orphan".
RECURSIVE Descendants(_)
Descendants(S) ==
    LET kids == {c \in DOMAIN categories : categories[c].parent_category_id \in S}
    IN IF kids \subseteq S THEN S ELSE Descendants(S \cup kids)

\* The accounts that go with the users DU: accounts.user_id is ON DELETE CASCADE.
CascadeAccounts(DU) == {a \in DOMAIN accounts : accounts[a].user_id \in DU}

\* (mutant) A NULL user_id is taken to match the deleted user.
CascadeCategoriesAndSystem(DU, seed) ==
    Descendants(seed \cup {c \in DOMAIN categories :
                              categories[c].user_id \in DU \cup {NULL}})

\* The categories that go with the users DU and the categories seed:
\* transaction_categories.user_id is ON DELETE CASCADE, and so is the parent.
CascadeCategories(DU, seed) ==
    Descendants(seed \cup {c \in DOMAIN categories : categories[c].user_id \in DU})

\* (mutant) budgets.user_id does not cascade.
CascadeBudgetsOfCategories(DU, DC) ==
    {b \in DOMAIN budgets : budgets[b].category_id \in DC}

\* The budgets that go with the users DU and the categories DC:
\* budgets.user_id and budgets.category_id are both ON DELETE CASCADE.
CascadeBudgets(DU, DC) ==
    {b \in DOMAIN budgets : budgets[b].user_id \in DU \/ budgets[b].category_id \in DC}

\* (mutant) transactions.account_id does not cascade.
CascadeNoTransactions(DA) == {}

\* The transactions that go with the accounts DA: transactions.account_id is
\* ON DELETE CASCADE.
CascadeTransactions(DA) == {t \in DOMAIN transactions : transactions[t].account_id \in DA}

\* (mutant) transactions.category_id is left as it was.
CategoryKept(c, DC) == c

\* transactions.category_id is ON DELETE SET NULL.
CategoryAfterDelete(c, DC) == IF c \in DC THEN NULL ELSE c

\* (mutant) transactions.linked_transaction_id is left as it was.
LinkKept(l, DT) == l

\* transactions.linked_transaction_id is ON DELETE SET NULL.
LinkAfterDelete(l, DT) == IF l \in DT THEN NULL ELSE l

\* The transactions table once the transactions DT and the categories DC are gone.
TransactionsAfterDelete(DT, DC) ==
    [t \in DOMAIN transactions \ DT |->
        [transactions[t] EXCEPT
            !.category_id = CategoryAfterDelete(@, DC),
            !.linked_transaction_id = LinkAfterDelete(@, DT)]]

\* History only: the surviving transactions a delete uncategorised or unlinked.
Uncategorised(DT, DC) ==
    {t \in DOMAIN transactions \ DT : transactions[t].category_id \in DC}

Unlinked(DT) ==
    {t \in DOMAIN transactions \ DT : transactions[t].linked_transaction_id \in DT}

\* ----------------------------------------------------------------- state
Init ==
    /\ users = [i \in {} |-> NULL]
    /\ accounts = [i \in {} |-> NULL]
    /\ categories = [i \in {} |-> NULL]
    /\ transactions = [i \in {} |-> NULL]
    /\ budgets = [i \in {} |-> NULL]
    /\ appended = NoTransfer
    /\ last = NoDelete

\* ------------------------------------------------------------- row inserts
\* session.add(User(email=...)): refused when the unique index finds the email.
AddUser(email) ==
    /\ HasRoom(users, MaxUsers)
    /\ ~EmailTaken(email)
    /\ users' = Insert(users, FreshId(users, MaxUsers), [email |-> email])
    /\ appended' = NoTransfer
    /\ last' = NoDelete
    /\ UNCHANGED <<accounts, categories, transactions, budgets>>

\* session.add(Account(user_id=u, ...)): balance takes its default, 0.00.
AddAccount(u) ==
    /\ HasRoom(accounts, MaxAccounts)
    /\ UserExists(u)
    /\ accounts' = Insert(accounts, FreshId(accounts, MaxAccounts),
                          [user_id |-> u, balance |-> 0])
    /\ appended' = NoTransfer
    /\ last' = NoDelete
    /\ UNCHANGED <<users, categories, transactions, budgets>>

\* session.add(TransactionCategory(user_id=u, parent_category_id=p, ...)):
\* both keys are nullable, and a set key must name a row of the table as it is
\* after the statement: the new row may name itself as its parent.
AddCategory(u, p) ==
    /\ HasRoom(categories, MaxCategories)
    /\ u = NULL \/ UserExists(u)
    /\ p = NULL \/ CategoryExists(p) \/ p = FreshId(categories, MaxCategories)
    /\ categories' = Insert(categories, FreshId(categories, MaxCategories),
                            [user_id |-> u, parent_category_id |-> p])
    /\ appended' = NoTransfer
    /\ last' = NoDelete
    /\ UNCHANGED <<users, accounts, transactions, budgets>>

\* category.parent_category_id = p (reparenting): the foreign key is the only check.
SetParent(c, p) ==
    /\ CategoryExists(c)
    /\ p = NULL \/ CategoryExists(p)
    /\ categories[c].parent_category_id # p
    /\ categories' = [categories EXCEPT ![c].parent_category_id = p]
    /\ appended' = NoTransfer
    /\ last' = NoDelete
    /\ UNCHANGED <<users, accounts, transactions, budgets>>

\* session.add(Transaction(account_id=a, category_id=c, amount=..., ...)): the row
\* is written; no column of the account is touched.  The link is checked against
\* the table as it is after the statement: the new row may link to itself.
AddTransaction(a, c, type, amount, l) ==
    /\ HasRoom(transactions, MaxTransactions)
    /\ AccountExists(a)
    /\ c = NULL \/ CategoryExists(c)
    /\ l = NULL \/ TransactionExists(l) \/ l = FreshId(transactions, MaxTransactions)
    /\ transactions' = Insert(transactions, FreshId(transactions, MaxTransactions),
                              [account_id |-> a, category_id |-> c, amount |-> amount,
                               transaction_type |-> type, linked_transaction_id |-> l])
    /\ appended' = NoTransfer
    /\ last' = NoDelete
    /\ UNCHANGED <<users, accounts, categories, budgets>>

\* transaction.linked_transaction_id = l (or transaction.linked_transaction = ...):
\* the foreign key is the only check, and the row itself satisfies it.
SetLink(t, l) ==
    /\ TransactionExists(t)
    /\ l = NULL \/ TransactionExists(l)
    /\ transactions[t].linked_transaction_id # l
    /\ transactions' = [transactions EXCEPT ![t].linked_transaction_id = l]
    /\ appended' = NoTransfer
    /\ last' = NoDelete
    /\ UNCHANGED <<users, accounts, categories, budgets>>

\* session.add(Budget(user_id=u, category_id=c, ...)): both keys are required.
AddBudget(u, c) ==
    /\ HasRoom(budgets, MaxBudgets)
    /\ UserExists(u)
    /\ CategoryExists(c)
    /\ budgets' = Insert(budgets, FreshId(budgets, MaxBudgets),
                         [user_id |-> u, category_id |-> c])
    /\ appended' = NoTransfer
    /\ last' = NoDelete
    /\ UNCHANGED <<users, accounts, categories, transactions>>

\* ------------------------------------------------------------- row deletes
\* session.delete(user): the user's accounts (with their transactions), categories
\* (with their subcategories) and budgets go; what pointed at a deleted category or
\* transaction from outside is removed (budgets) or cleared (transactions).
\* A parent cycle among the deleted categories makes the unit of work raise instead,
\* which is the stuttering step.
DeleteUser(u) ==
    /\ UserExists(u)
    /\ LET DA == CascadeAccounts({u})
           DC == CascadeCategories({u}, {})
           DB == CascadeBudgets({u}, DC)
           DT == CascadeTransactions(DA)
       IN /\ users' = Remove(users, {u})
          /\ accounts' = Remove(accounts, DA)
          /\ categories' = Remove(categories, DC)
          /\ budgets' = Remove(budgets, DB)
          /\ transactions' = TransactionsAfterDelete(DT, DC)
          /\ last' = Flushed("DeleteUser", {u}, DA, DC, DB, DT,
                             Uncategorised(DT, DC), Unlinked(DT))
    /\ appended' = NoTransfer

\* session.delete(account): its transactions go with it.
DeleteAccount(a) ==
    /\ AccountExists(a)
    /\ accounts' = Remove(accounts, {a})
    /\ transactions' = TransactionsAfterDelete(CascadeTransactions({a}), {})
    /\ last' = Flushed("DeleteAccount", {}, {a}, {}, {}, CascadeTransactions({a}),
                       {}, Unlinked(CascadeTransactions({a})))
    /\ appended' = NoTransfer
    /\ UNCHANGED <<users, categories, budgets>>

\* session.delete(category): its subcategories and the budgets on them go with it;
\* the transactions in them stay, uncategorised.
DeleteCategory(c) ==
    /\ CategoryExists(c)
    /\ LET DC == CascadeCategories({}, {c})
       IN /\ categories' = Remove(categories, DC)
          /\ budgets' = Remove(budgets, CascadeBudgets({}, DC))
          /\ transactions' = TransactionsAfterDelete({}, DC)
          /\ last' = Flushed("DeleteCategory", {}, {}, DC, CascadeBudgets({}, DC), {},
                             Uncategorised({}, DC), {})
    /\ appended' = NoTransfer
    /\ UNCHANGED <<users, accounts>>

\* session.delete(transaction): the row goes; a row that linked to it is unlinked.
DeleteTransaction(t) ==
    /\ TransactionExists(t)
    /\ transactions' = TransactionsAfterDelete({t}, {})
    /\ last' = Flushed("DeleteTransaction", {}, {}, {}, {}, {t}, {}, Unlinked({t}))
    /\ appended' = NoTransfer
    /\ UNCHANGED <<users, accounts, categories, budgets>>

\* session.delete(budget).
DeleteBudget(b) ==
    /\ b \in DOMAIN budgets
    /\ budgets' = Remove(budgets, {b})
    /\ last' = Flushed("DeleteBudget", {}, {}, {}, {b}, {}, {}, {})
    /\ appended' = NoTransfer
    /\ UNCHANGED <<users, accounts, categories, transactions>>

\* ------------------------------------------------------- the journal's unit
\* appendTransfer(src, dst, amount): a debit leg on src and a credit leg on dst,
\* each linking to the other, and both balances moved, in one unit of work.
AppendTransfer(src, dst, amount) ==
    /\ AccountExists(src) /\ AccountExists(dst)
    /\ src # dst
    /\ amount > 0
    /\ Cardinality(DOMAIN transactions) + 2 <= MaxTransactions
    /\ Rows + 2 <= MaxRows
    /\ accounts[src].balance - amount >= -MaxBalance
    /\ accounts[dst].balance + amount <= MaxBalance
    /\ LET d == FreshId(transactions, MaxTransactions)
           withDebit == Insert(transactions, d,
                               [account_id |-> src, category_id |-> NULL,
                                amount |-> -amount, transaction_type |-> TRANSFER,
                                linked_transaction_id |-> NULL])
           c == FreshId(withDebit, MaxTransactions)
           withCredit == Insert(withDebit, c,
                                [account_id |-> dst, category_id |-> NULL,
                                 amount |-> amount, transaction_type |-> TRANSFER,
                                 linked_transaction_id |-> d])
       IN /\ transactions' = [withCredit EXCEPT ![d].linked_transaction_id = c]
          /\ accounts' = [accounts EXCEPT ![src].balance = @ - amount,
                                          ![dst].balance = @ + amount]
          /\ appended' = [debit |-> d, credit |-> c, src |-> src, dst |-> dst,
                          srcBalance |-> accounts[src].balance,
                          dstBalance |-> accounts[dst].balance]
    /\ last' = NoDelete
    /\ UNCHANGED <<users, categories, budgets>>

\* ---------------------------------------------------------- specifications
UserIds == 1..MaxUsers
AccountIds == 1..MaxAccounts
CategoryIds == 1..MaxCategories
TransactionIds == 1..MaxTransactions
BudgetIds == 1..MaxBudgets

\* The store: every table and every cascade, with plain expense transactions.
Next ==
    \/ \E e \in Emails : AddUser(e)
    \/ \E u \in UserIds : AddAccount(u)
    \/ \E u \in UserIds \cup {NULL}, p \in CategoryIds \cup {NULL} : AddCategory(u, p)
    \/ \E c \in CategoryIds, p \in CategoryIds \cup {NULL} : SetParent(c, p)
    \/ \E a \in AccountIds, c \in CategoryIds \cup {NULL} :
            AddTransaction(a, c, EXPENSE, 1, NULL)
    \/ \E u \in UserIds, c \in CategoryIds : AddBudget(u, c)
    \/ \E u \in UserIds : DeleteUser(u)
    \/ \E a \in AccountIds : DeleteAccount(a)
    \/ \E c \in CategoryIds : DeleteCategory(c)
    \/ \E t \in TransactionIds : DeleteTransaction(t)
    \/ \E b \in BudgetIds : DeleteBudget(b)

Spec == Init /\ [][Next]_vars

\* The linked rows: income and transfer transactions, written with or without a
\* link (to another row or to themselves) and relinked afterwards, in system
\* categories or in none.
NextLinks ==
    \/ \E e \in Emails : AddUser(e)
    \/ \E u \in UserIds : AddAccount(u)
    \/ AddCategory(NULL, NULL)
    \/ \E a \in AccountIds, c \in CategoryIds \cup {NULL}, type \in {INCOME, TRANSFER},
          l \in TransactionIds \cup {NULL} :
            AddTransaction(a, c, type, 1, l)
    \/ \E t \in TransactionIds, l \in TransactionIds \cup {NULL} : SetLink(t, l)
    \/ \E u \in UserIds : DeleteUser(u)
    \/ \E a \in AccountIds : DeleteAccount(a)
    \/ \E c \in CategoryIds : DeleteCategory(c)
    \/ \E t \in TransactionIds : DeleteTransaction(t)

SpecLinks == Init /\ [][NextLinks]_vars

\* The journal: transfers are written by appendTransfer, rows are deleted as above.
NextJournal ==
    \/ \E e \in Emails : AddUser(e)
    \/ \E u \in UserIds : AddAccount(u)
    \/ \E src \in AccountIds, dst \in AccountIds, amount \in 1..MaxAmount :
            AppendTransfer(src, dst, amount)
    \/ \E u \in UserIds : DeleteUser(u)
    \/ \E a \in AccountIds : DeleteAccount(a)
    \/ \E t \in TransactionIds : DeleteTransaction(t)

SpecJournal == Init /\ [][NextJournal]_vars

\* ------------------------------------------------- vocabulary of the claims
\* Letter case ignored: str.lower() on one character code and on a whole string.
LowerChar(c) == IF c >= 65 /\ c <= 90 THEN c + 32 ELSE c
Lower(s) == [i \in DOMAIN s |-> LowerChar(s[i])]

\* The categories met by following parent_category_id from c, at most n times.
RECURSIVE Climb(_, _)
Climb(c, n) ==
    IF n = 0 \/ categories[c].parent_category_id = NULL THEN {}
    ELSE {categories[c].parent_category_id}
         \cup Climb(categories[c].parent_category_id, n - 1)

AncestorsOf(c) == Climb(c, Cardinality(DOMAIN categories))

\* d is c or lies below c in the parent/child tree.
InSubtree(d, c) == d = c \/ c \in AncestorsOf(d)

\* The amount of a transaction as it counts in its account's balance.
SignedAmount(t) ==
    IF transactions[t].transaction_type = EXPENSE THEN -transactions[t].amount
    ELSE transactions[t].amount

RECURSIVE SumOf(_)
SumOf(T) ==
    IF T = {} THEN 0
    ELSE LET t == CHOOSE x \in T : TRUE IN SignedAmount(t) + SumOf(T \ {t})

JournalSum(a) == SumOf({t \in DOMAIN transactions : transactions[t].account_id = a})

\* The owner of the account a transaction is written on.
OwnerOf(t) == accounts[transactions[t].account_id].user_id

Gone(table) == DOMAIN table \ DOMAIN table'

\* ------------------------------------------------------------------ claims
\* C1: every transfer Transaction has a link partner that exists, is a transfer
\* on a different account, carries the opposite amount and links back to it.
C1_TransferPaired ==
    \A t \in DOMAIN transactions :
        transactions[t].transaction_type = TRANSFER =>
            LET l == transactions[t].linked_transaction_id
            IN /\ l \in DOMAIN transactions
               /\ transactions[l].transaction_type = TRANSFER
               /\ transactions[l].account_id # transactions[t].account_id
               /\ transactions[l].amount = -transactions[t].amount
               /\ transactions[l].linked_transaction_id = t

\* C2: the stored balance of every account equals the signed sum of the
\* transactions that are on it.
C2_BalanceIsJournalSum ==
    \A a \in DOMAIN accounts : accounts[a].balance = JournalSum(a)

\* C3: once appendTransfer(A, B, amt) is followed by the removal of the leg on A,
\* neither leg is in the store and both balances are what they were before.
C3_RemoveLegUndoesTransfer ==
    [][(/\ appended.debit # NULL
        /\ last'.op = "DeleteTransaction"
        /\ last'.transactions = {appended.debit})
       => /\ appended.debit \notin DOMAIN transactions'
          /\ appended.credit \notin DOMAIN transactions'
          /\ accounts'[appended.src].balance = appended.srcBalance
          /\ accounts'[appended.dst].balance = appended.dstBalance]_vars

\* C4: when transaction t is deleted, every transaction u that linked to t is
\* still there, with its link cleared and its other columns as they were; no
\* write leaves a link to a transaction that is gone.
C4_DeleteClearsLink ==
    [][\A t \in Gone(transactions) : \A u \in DOMAIN transactions :
          (u # t /\ transactions[u].linked_transaction_id = t) =>
             /\ (Gone(transactions) = {t} /\ accounts' = accounts
                 /\ categories' = categories)
                  => /\ u \in DOMAIN transactions'
                     /\ transactions'[u] =
                          [transactions[u] EXCEPT !.linked_transaction_id = NULL]
             /\ u \in DOMAIN transactions'
                  => transactions'[u].linked_transaction_id = NULL]_vars

C4_Witness ==
    /\ last.op = "DeleteTransaction"
    /\ last.unlinked # {}
    /\ \A u \in last.unlinked :
          u \in DOMAIN transactions /\ transactions[u].linked_transaction_id = NULL

\* C5: after a user is deleted the store holds no account, category or budget
\* of that user and no transaction that was on one of the user's accounts.
C5_DeleteUserCascades ==
    [][\A u \in Gone(users) :
          /\ \A a \in DOMAIN accounts' : accounts'[a].user_id # u
          /\ \A c \in DOMAIN categories' : categories'[c].user_id # u
          /\ \A b \in DOMAIN budgets' : budgets'[b].user_id # u
          /\ \A t \in DOMAIN transactions :
                OwnerOf(t) = u => t \notin DOMAIN transactions']_vars

C5_Witness ==
    /\ last.op = "DeleteUser"
    /\ last.accounts # {} /\ last.transactions # {}
    /\ last.categories # {} /\ last.budgets # {}
    /\ last.users \cap DOMAIN users = {}
    /\ last.accounts \cap DOMAIN accounts = {}

\* C6: after a category is deleted, it, its descendants and the budgets on them
\* are gone; the transactions that were in them are all still there, with no
\* category and otherwise as they were, and no transaction was removed.
C6_DeleteCategoryCascades ==
    [][\A c \in Gone(categories) :
          DOMAIN users' = DOMAIN users =>
             /\ \A d \in DOMAIN categories : InSubtree(d, c) => d \notin DOMAIN categories'
             /\ \A b \in DOMAIN budgets :
                   InSubtree(budgets[b].category_id, c) => b \notin DOMAIN budgets'
             /\ \A t \in DOMAIN transactions :
                   (transactions[t].category_id # NULL
                    /\ InSubtree(transactions[t].category_id, c))
                     => /\ t \in DOMAIN transactions'
                        /\ transactions'[t] =
                             [transactions[t] EXCEPT !.category_id = NULL]
             /\ Cardinality(DOMAIN transactions') = Cardinality(DOMAIN transactions)]_vars

C6_Witness ==
    /\ last.op = "DeleteCategory"
    /\ Cardinality(last.categories) >= 2
    /\ last.uncategorised # {}
    /\ \A t \in last.uncategorised :
          t \in DOMAIN transactions /\ transactions[t].category_id = NULL

\* C7: the parent chain of every category is acyclic: following
\* parent_category_id from a category never comes back to it.
C7_ParentChainAcyclic ==
    \A c \in DOMAIN categories : c \notin AncestorsOf(c)

\* C8: every account and budget names an existing user, every transaction an
\* existing account, and every category an existing user or none.
C8_OwnersExist ==
    /\ \A a \in DOMAIN accounts : accounts[a].user_id \in DOMAIN users
    /\ \A b \in DOMAIN budgets : budgets[b].user_id \in DOMAIN users
    /\ \A t \in DOMAIN transactions :
          /\ transactions[t].account_id \in DOMAIN accounts
          /\ OwnerOf(t) \in DOMAIN users
    /\ \A c \in DOMAIN categories :
          categories[c].user_id = NULL \/ categories[c].user_id \in DOMAIN users

C8_Witness ==
    /\ last.op = "DeleteUser"
    /\ last.accounts # {} /\ last.transactions # {}
    /\ DOMAIN users # {} /\ DOMAIN accounts # {}

\* C9 as written: no two users have emails that are equal when letter case is
\* ignored (a user whose email differs from a registered one only in case is refused).
C9_UniqueIgnoringCase ==
    \A u, v \in DOMAIN users :
        u # v => Lower(users[u].email) # Lower(users[v].email)

\* C9 as amended: no two users have the same email, compared as stored (a user
\* whose email is exactly a registered one is refused).
C9_UniqueAsStored ==
    \A u, v \in DOMAIN users : u # v => users[u].email # users[v].email

C9_Witness ==
    \E u, v \in DOMAIN users :
        /\ u # v
        /\ users[u].email # users[v].email
        /\ Lower(users[u].email) = Lower(users[v].email)

\* C10 as written: deleting a user removes only what that user owns: every system
\* category and every account, category, budget and transaction of another user
\* is still there.
C10_DeleteUserRemovesOnlyOwn ==
    [][\A u \in Gone(users) :
          /\ \A a \in DOMAIN accounts :
                accounts[a].user_id # u => a \in DOMAIN accounts'
          /\ \A c \in DOMAIN categories :
                categories[c].user_id # u => c \in DOMAIN categories'
          /\ \A b \in DOMAIN budgets :
                budgets[b].user_id # u => b \in DOMAIN budgets'
          /\ \A t \in DOMAIN transactions :
                OwnerOf(t) # u => t \in DOMAIN transactions']_vars

\* C10 as amended: deleting a user removes, beyond what the user owns, only the
\* categories below one of the user's categories and the budgets on a removed
\* category; every other category and budget, and every account and transaction
\* of another user, is still there.
C10_DeleteUserRemovesOwnAndBelow ==
    [][\A u \in Gone(users) :
          LET below(c) == \E r \in DOMAIN categories :
                              categories[r].user_id = u /\ InSubtree(c, r)
          IN /\ \A a \in DOMAIN accounts :
                   accounts[a].user_id # u => a \in DOMAIN accounts'
             /\ \A c \in DOMAIN categories :
                   ~below(c) => c \in DOMAIN categories'
             /\ \A b \in DOMAIN budgets :
                   (budgets[b].user_id # u /\ ~below(budgets[b].category_id))
                     => b \in DOMAIN budgets'
             /\ \A t \in DOMAIN transactions :
                   OwnerOf(t) # u => t \in DOMAIN transactions']_vars

C10_Witness ==
    /\ last.op = "DeleteUser"
    /\ last.foreignCategories # {}
    /\ last.foreignBudgets # {}
    /\ DOMAIN users # {}

=============================================================================
